---- MODULE Spec2Model ----
(***************************************************************************)
(* A model of virtinst/storage.py: StoragePool (defaulting, validation,    *)
(* install) and StorageVolume (size check, install with its progress       *)
(* thread).                                                                *)
(*                                                                         *)
(* Conventions.  Python's None and the empty string are both falsy and    *)
(* the code only ever tests these fields for truthiness, so an unset       *)
(* string property is "" and an unset path/name property is <<>>.  Names   *)
(* and paths are sequences of tokens; concatenation is \o.  A libvirt call *)
(* that may fail is a nondeterministic choice "ok \in BOOLEAN".            *)
(***************************************************************************)
EXTENDS Integers, Sequences, FiniteSets, TLC

\* ------------------------------------------------------------------ bounds

\* Largest number of <host> children of a pool.
MaxHosts == 1

\* Sizes (allocation, capacity, available) range over 0..MaxSize units.
MaxSize == 2

\* Largest number of install() calls made on one StorageVolume.
MaxInstalls == 2

\* Largest number of pools the connection enumerates.
MaxPools == 2

\* ---------------------------------------------------------------- constants

_DEFAULT_DEV_TARGET == <<"/dev">>
_DEFAULT_LVM_TARGET_BASE == <<"/dev/">>
_DEFAULT_SCSI_TARGET == <<"/dev/disk/by-path">>
_DEFAULT_MPATH_TARGET == <<"/dev/mapper">>

TYPE_DIR == "dir"
TYPE_FS == "fs"
TYPE_NETFS == "netfs"
TYPE_LOGICAL == "logical"
TYPE_DISK == "disk"
TYPE_ISCSI == "iscsi"
TYPE_SCSI == "scsi"
TYPE_MPATH == "mpath"
TYPE_GLUSTER == "gluster"
TYPE_RBD == "rbd"
TYPE_SHEEPDOG == "sheepdog"
TYPE_ZFS == "zfs"

\* The fixed set of pool types (class attributes of StoragePool).
PoolTypes ==
    {TYPE_DIR, TYPE_FS, TYPE_NETFS, TYPE_LOGICAL, TYPE_DISK, TYPE_ISCSI,
     TYPE_SCSI, TYPE_MPATH, TYPE_GLUSTER, TYPE_RBD, TYPE_SHEEPDOG, TYPE_ZFS}

NoPath == <<>>
NoErr == ""

\* An exception: its Python type and its message.  NoExc: nothing raised.
Exc(type, msg) == [type |-> type, msg |-> msg]
NoExc == Exc("", "")

\* ------------------------------------------------------------- input sets

\* Pool names: a plain name and one that starts with a path separator.
PoolNames == {<<"p">>, <<"/", "p">>}
SourcePaths == {NoPath, <<"/dev/sdb">>}
SourceNames == {NoPath, <<"vg0">>}
PoolFormats == {"", "auto", "dos"}
TargetPaths == {NoPath, <<"/dev/", "v", "/", "x">>, <<"/srv/images">>}

VARIABLES
    pool,       \* the StoragePool object: its XML properties
    session,    \* conn.is_session_uri()
    ppc,        \* position of the pool operation in progress
    args,       \* install()'s arguments create, build, autostart
    errmsg,     \* install()'s local errmsg
    calls,      \* libvirt calls install() has made, in order, with outcome
    cache,      \* handles passed to conn.cache_new_pool
    raised,     \* exception raised by install() (NoExc if none)
    ret,        \* value returned by install() ("" if none)
    validated,  \* validate() has run
    verr,       \* exception raised by validate() (NoExc if none)
    entry,      \* the pool as it was when validate() was entered
    dtp         \* result of the last default_target_path() call

poolvars ==
    <<pool, session, ppc, args, errmsg, calls, cache, raised, ret,
      validated, verr, entry, dtp>>

VARIABLES
    vol,               \* the StorageVolume object: properties and attributes
    is_really_test,    \* conn.is_really_test()
    prealloc_support,  \* conn.support.pool_metadata_prealloc(pool)
    avail,             \* pool.info()[3]
    conflict,          \* result of the last is_size_conflict() call
    mpc,               \* position of the thread that runs install()
    ninstalls,         \* install() calls started so far
    install_finished,  \* the threading.Event _install_finished
    workers,           \* the progress threads, by the install() call's number
    mlog,              \* what the running install() has done, in order
    create_call,       \* the creation call the running install() made
    meter_ended,       \* the install() calls that have called meter.end
    vret,              \* value returned by install() ("" if none)
    vraised            \* exception raised by install() (NoExc if none)

volvars ==
    <<vol, is_really_test, prealloc_support, avail, conflict, mpc, ninstalls,
      install_finished, workers, mlog, create_call, meter_ended, vret,
      vraised>>

VARIABLES
    vtype,       \* the StorageVolume's explicit type ("" if unset)
    pool_type,   \* the type of the volume's pool snapshot _pool_xml
    lazy_refcounts,  \* the volume's lazy_refcounts ("unset", TRUE, FALSE)
    vval,        \* outcome of StorageVolume.validate()
    ventry,      \* the volume as it was when validate() was entered
    ftype,       \* result of the last read of file_type
    conn_pools,  \* conn.fetch_all_pools(): the pools, in enumeration order
    dpc,         \* position of build_default_pool()
    dbuild,      \* build_default_pool()'s argument build
    dret         \* what build_default_pool() returned or raised

extvars ==
    <<vtype, pool_type, lazy_refcounts, vval, ventry, ftype, conn_pools, dpc,
      dbuild, dret>>

vars == <<poolvars, volvars, extvars>>

\* ----------------------------------------------------- StoragePool helpers

_preferred_default_pool_path(sess) ==
    IF sess THEN <<"~/.local/share/libvirt/images">>
    ELSE <<"/var/lib/libvirt/images">>

\* os.path.join(a, b): an absolute b replaces a; otherwise b is appended,
\* after a separator unless a is empty or already ends with one.
PathJoin(a, b) ==
    IF b # <<>> /\ b[1] = "/" THEN b
    ELSE IF a = <<>> \/ a[Len(a)] = "/" THEN a \o b
    ELSE a \o <<"/">> \o b

users ==
    [source_path |-> {TYPE_FS, TYPE_NETFS, TYPE_LOGICAL, TYPE_DISK,
                      TYPE_ISCSI, TYPE_SCSI, TYPE_GLUSTER},
     source_name |-> {TYPE_LOGICAL, TYPE_GLUSTER, TYPE_RBD, TYPE_SHEEPDOG,
                      TYPE_ZFS},
     hosts |-> {TYPE_NETFS, TYPE_ISCSI, TYPE_GLUSTER, TYPE_RBD,
                TYPE_SHEEPDOG},
     format |-> {TYPE_FS, TYPE_NETFS, TYPE_DISK},
     iqn |-> {TYPE_ISCSI},
     target_path |-> {TYPE_DIR, TYPE_FS, TYPE_NETFS, TYPE_LOGICAL,
                      TYPE_DISK, TYPE_ISCSI, TYPE_SCSI, TYPE_MPATH}]

\* Attributes of a StoragePool other than the keys of users (hasattr).
PoolAttributes ==
    {"name", "type", "uuid", "capacity", "allocation", "available",
     "permissions", "auth_type", "auth_username", "auth_secret_uuid"}

supports_property(type, propname) ==
    IF propname \in DOMAIN users THEN type \in users[propname]
    ELSE propname \in PoolAttributes

\* The result of a call: the exception it raised (NoExc if it returned) and
\* the value it returned.
Returned(v) == [raised |-> NoExc, value |-> v]
Raised(e) == [raised |-> e, value |-> NoPath]

default_target_path_raises(p, sess) ==
    IF p.type \in {TYPE_DIR, TYPE_NETFS, TYPE_FS} THEN
        Returned(PathJoin(_preferred_default_pool_path(sess), p.name))
    ELSE IF p.type = TYPE_LOGICAL THEN
        Returned(_DEFAULT_LVM_TARGET_BASE \o
                 (IF p.source_name # NoPath THEN p.source_name ELSE p.name))
    ELSE IF p.type = TYPE_DISK THEN Returned(_DEFAULT_DEV_TARGET)
    ELSE IF p.type \in {TYPE_ISCSI, TYPE_SCSI} THEN
        Returned(_DEFAULT_SCSI_TARGET)
    ELSE IF p.type = TYPE_MPATH THEN Returned(_DEFAULT_MPATH_TARGET)
    ELSE Raised(Exc("RuntimeError", "No default target_path"))

default_target_path(p, sess) ==
    IF ~supports_property(p.type, "target_path") THEN Returned(NoPath)
    ELSE IF p.type \in {TYPE_DIR, TYPE_NETFS, TYPE_FS} THEN
        Returned(PathJoin(_preferred_default_pool_path(sess), p.name))
    ELSE IF p.type = TYPE_LOGICAL THEN
        Returned(_DEFAULT_LVM_TARGET_BASE \o
                 (IF p.source_name # NoPath THEN p.source_name ELSE p.name))
    ELSE IF p.type = TYPE_DISK THEN Returned(_DEFAULT_DEV_TARGET)
    ELSE IF p.type \in {TYPE_ISCSI, TYPE_SCSI} THEN
        Returned(_DEFAULT_SCSI_TARGET)
    ELSE IF p.type = TYPE_MPATH THEN Returned(_DEFAULT_MPATH_TARGET)
    ELSE Raised(Exc("RuntimeError", "No default target_path"))

\* s.split("/", 1)[0]: the tokens before the first separator.
SplitFirst(s) ==
    LET seps == {i \in 1..Len(s) : s[i] = "/"}
    IN  IF seps = {} THEN s
        ELSE SubSeq(s, 1, (CHOOSE i \in seps : \A j \in seps : i <= j) - 1)

\* target_path.startswith(_DEFAULT_LVM_TARGET_BASE)
StartsWithLvmBase(path) ==
    path # NoPath /\ path[1] = _DEFAULT_LVM_TARGET_BASE[1]

\* The pool objects of this model are built through the property setters,
\* so target_path is in _propstore exactly when it has been given a value.
default_source_name(p) ==
    IF ~supports_property(p.type, "source_name") THEN NoPath
    ELSE IF p.type = TYPE_NETFS THEN p.name
    ELSE IF p.type = TYPE_RBD THEN <<"rbd">>
    ELSE IF p.type = TYPE_GLUSTER THEN <<"gv0">>
    ELSE IF p.target_path # NoPath /\ StartsWithLvmBase(p.target_path) THEN
        SplitFirst(Tail(p.target_path))
    ELSE NoPath

\* validate(): the pool it leaves behind and the exception it raised.  The
\* assignments made before a raise stay in the object.
validate_keeps_disk_auto(p, sess, name_ok) ==
    LET d == default_target_path(p, sess)
        p1 == IF p.target_path = NoPath /\ d.raised = NoExc
              THEN [p EXCEPT !.target_path = d.value] ELSE p
        p2 == IF p1.source_name = NoPath
              THEN [p1 EXCEPT !.source_name = default_source_name(p1)]
              ELSE p1
        p3 == IF p2.format = "" /\ supports_property(p2.type, "format")
              THEN [p2 EXCEPT !.format = "auto"] ELSE p2
    IN  IF ~name_ok THEN [pool |-> p, raised |-> Exc("ValueError", "Name already in use")]
        ELSE IF p.target_path = NoPath /\ d.raised # NoExc
        THEN [pool |-> p, raised |-> d.raised]
        ELSE IF supports_property(p3.type, "hosts") /\ p3.hosts = 0
        THEN [pool |-> p3, raised |-> Exc("RuntimeError", "Hostname is required")]
        ELSE IF /\ supports_property(p3.type, "source_path")
                /\ p3.type # TYPE_LOGICAL
                /\ p3.source_path = NoPath
        THEN [pool |-> p3, raised |-> Exc("RuntimeError", "Source path is required")]
        ELSE [pool |-> p3, raised |-> NoExc]

validate(p, sess, name_ok) ==
    LET d == default_target_path(p, sess)
        p1 == IF p.target_path = NoPath /\ d.raised = NoExc
              THEN [p EXCEPT !.target_path = d.value] ELSE p
        p2 == IF p1.source_name = NoPath
              THEN [p1 EXCEPT !.source_name = default_source_name(p1)]
              ELSE p1
        p3 == IF p2.format = "" /\ supports_property(p2.type, "format")
              THEN [p2 EXCEPT !.format = "auto"] ELSE p2
        p4 == IF p3.type = TYPE_DISK /\ p3.format = "auto"
              THEN [p3 EXCEPT !.format = ""] ELSE p3
    IN  IF ~name_ok THEN [pool |-> p, raised |-> Exc("ValueError", "Name already in use")]
        ELSE IF p.target_path = NoPath /\ d.raised # NoExc
        THEN [pool |-> p, raised |-> d.raised]
        ELSE IF supports_property(p3.type, "hosts") /\ p3.hosts = 0
        THEN [pool |-> p3, raised |-> Exc("RuntimeError", "Hostname is required")]
        ELSE IF /\ supports_property(p3.type, "source_path")
                /\ p3.type # TYPE_LOGICAL
                /\ p3.source_path = NoPath
        THEN [pool |-> p3, raised |-> Exc("RuntimeError", "Source path is required")]
        ELSE [pool |-> p4, raised |-> NoExc]

\* The two precondition checks at the head of install(): the ValueError
\* they raise, NoExc if both pass.
install_precheck(p, build) ==
    IF p.type = TYPE_LOGICAL /\ build /\ p.source_path = NoPath
    THEN Exc("ValueError", "Must explicitly specify source path")
    ELSE IF p.type = TYPE_DISK /\ build /\ p.format = "auto"
    THEN Exc("ValueError", "Must explicitly specify disk format")
    ELSE NoExc

\* "if <flag> and not errmsg": whether install() attempts a stage.
stage_runs_despite_error(flag, err) == flag

stage_runs(flag, err) == flag /\ err = NoErr

\* The handle storagePoolDefineXML returns.
PoolHandle == "virStoragePool"

Call(op, ok) == [op |-> op, ok |-> ok]

\* ------------------------------------------------------ StoragePool actions

PoolInit ==
    /\ pool \in [type : PoolTypes, name : PoolNames,
                 source_path : SourcePaths, source_name : SourceNames,
                 format : PoolFormats, target_path : TargetPaths,
                 hosts : 0..MaxHosts]
    /\ session \in BOOLEAN
    /\ ppc = "idle"
    /\ args = [create |-> FALSE, build |-> FALSE, autostart |-> FALSE]
    /\ errmsg = NoErr
    /\ calls = <<>>
    /\ cache = <<>>
    /\ raised = NoExc
    /\ ret = ""
    /\ validated = FALSE
    /\ verr = NoExc
    /\ entry = pool
    /\ dtp = Returned(NoPath)

\* StoragePool.validate(); validate_name's outcome is the connection's.
Validate ==
    /\ ppc = "idle"
    /\ ~validated
    /\ \E name_ok \in BOOLEAN :
        LET r == validate(pool, session, name_ok)
        IN  /\ pool' = r.pool
            /\ verr' = r.raised
    /\ entry' = pool
    /\ validated' = TRUE
    /\ UNCHANGED <<volvars, extvars, session, ppc, args, errmsg, calls, cache, raised, ret, dtp>>

\* StoragePool.default_target_path()
DefaultTargetPath ==
    /\ ppc = "idle"
    /\ dtp' = default_target_path(pool, session)
    /\ ppc' = "dtp"
    /\ UNCHANGED <<volvars, extvars, pool, session, args, errmsg, calls, cache, raised, ret,
                   validated, verr, entry>>

\* install(): the precondition checks.
InstallBegin ==
    /\ ppc = "idle"
    /\ verr = NoExc
    /\ \E c \in BOOLEAN, b \in BOOLEAN, a \in BOOLEAN :
        /\ args' = [create |-> c, build |-> b, autostart |-> a]
        /\ LET e == install_precheck(pool, b)
           IN  IF e # NoExc
               THEN raised' = e /\ ppc' = "raised"
               ELSE raised' = raised /\ ppc' = "define"
    /\ UNCHANGED <<volvars, extvars, pool, session, errmsg, calls, cache, ret, validated, verr,
                   entry, dtp>>

\* install(): conn.storagePoolDefineXML(xml, 0)
Define ==
    /\ ppc = "define"
    /\ \E ok \in BOOLEAN :
        /\ calls' = Append(calls, Call("define", ok))
        /\ IF ok
           THEN raised' = raised /\ ppc' = "build"
           ELSE /\ raised' = Exc("RuntimeError", "Could not define storage pool")
                /\ ppc' = "raised"
    /\ UNCHANGED <<volvars, extvars, pool, session, args, errmsg, cache, ret, validated, verr,
                   entry, dtp>>

\* install(): one of the three optional stages, at position at, guarded by
\* flag, calling op, setting errmsg to msg if the call fails.
Stage(at, flag, op, msg, next) ==
    /\ ppc = at
    /\ IF stage_runs(flag, errmsg)
       THEN \E ok \in BOOLEAN :
            /\ calls' = Append(calls, Call(op, ok))
            /\ errmsg' = IF ok THEN errmsg ELSE msg
       ELSE UNCHANGED <<calls, errmsg>>
    /\ ppc' = next
    /\ UNCHANGED <<volvars, extvars, pool, session, args, cache, raised, ret, validated, verr,
                   entry, dtp>>

Build ==
    /\ ppc = "build"
    /\ IF args.build
       THEN \E ok \in BOOLEAN :
            /\ calls' = Append(calls, Call("build", ok))
            /\ errmsg' = IF ok THEN errmsg
                         ELSE "Could not build storage pool"
       ELSE UNCHANGED <<calls, errmsg>>
    /\ ppc' = "create"
    /\ UNCHANGED <<volvars, extvars, pool, session, args, cache, raised, ret, validated, verr,
                   entry, dtp>>

Create ==
    Stage("create", args.create, "create", "Could not start storage pool",
          "autostart")

SetAutostart ==
    Stage("autostart", args.autostart, "setAutostart",
          "Could not set pool autostart flag", "check")

\* install(): "if errmsg": undefine the leftover pool and raise.
Cleanup ==
    /\ ppc = "check"
    /\ errmsg # NoErr
    /\ \E ok \in BOOLEAN : calls' = Append(calls, Call("undefine", ok))
    /\ raised' = Exc("RuntimeError", errmsg)
    /\ ppc' = "raised"
    /\ UNCHANGED <<volvars, extvars, pool, session, args, errmsg, cache, ret, validated, verr,
                   entry, dtp>>

Finish_without_cache ==
    /\ ppc = "check"
    /\ errmsg = NoErr
    /\ ret' = PoolHandle
    /\ ppc' = "returned"
    /\ UNCHANGED <<volvars, extvars, pool, session, args, errmsg, calls, cache, raised,
                   validated, verr, entry, dtp>>

\* install(): conn.cache_new_pool(pool); return pool
Finish ==
    /\ ppc = "check"
    /\ errmsg = NoErr
    /\ cache' = Append(cache, PoolHandle)
    /\ ret' = PoolHandle
    /\ ppc' = "returned"
    /\ UNCHANGED <<volvars, extvars, pool, session, args, errmsg, calls, raised, validated,
                   verr, entry, dtp>>

PoolNext ==
    \/ Validate
    \/ DefaultTargetPath
    \/ InstallBegin
    \/ Define
    \/ Build
    \/ Create
    \/ SetAutostart
    \/ Cleanup
    \/ Finish


\* --------------------------------------------------- StorageVolume helpers

\* Sizes are multiples of half a MiB, so that the integer division in the
\* messages of is_size_conflict() truncates.
MiB == 1024 * 1024
Sizes == {i * (MiB \div 2) : i \in 0..MaxSize}

VolFormats == {"raw", "qcow2"}

\* libvirt's creation flags, as bits of an integer.  The model takes a
\* libvirt binding that defines VIR_STORAGE_VOL_CREATE_REFLINK, so that the
\* default of getattr() is not used.
VIR_STORAGE_VOL_CREATE_PREALLOC_METADATA == 1
VIR_STORAGE_VOL_CREATE_REFLINK == 2

\* flags & bit, for a bit that is a power of two
HasFlag(flags, bit) == (flags \div bit) % 2 = 1

\* flags | bit
BitOr(flags, bit) == IF HasFlag(flags, bit) THEN flags ELSE flags + bit

\* The condition under which install() asks for metadata preallocation.
wants_prealloc(v, test, support) ==
    /\ v.format = "qcow2"
    /\ ~v.backing_store
    /\ ~test
    /\ support

createflags_ignores_backing_store(v, test, support) ==
    IF v.format = "qcow2" /\ ~test /\ support
    THEN BitOr(0, VIR_STORAGE_VOL_CREATE_PREALLOC_METADATA)
    ELSE 0

\* install(): the flags passed to createXML
createflags(v, test, support) ==
    IF wants_prealloc(v, test, support)
    THEN BitOr(0, VIR_STORAGE_VOL_CREATE_PREALLOC_METADATA)
    ELSE 0

cloneflags_without_reflink(v, test, support) ==
    IF wants_prealloc(v, test, support) /\ v.capacity = v.allocation
    THEN BitOr(0, VIR_STORAGE_VOL_CREATE_PREALLOC_METADATA)
    ELSE 0

\* install(): the flags passed to createXMLFrom
cloneflags(v, test, support) ==
    LET f == IF wants_prealloc(v, test, support)
                /\ v.capacity = v.allocation
             THEN BitOr(0, VIR_STORAGE_VOL_CREATE_PREALLOC_METADATA)
             ELSE 0
    IN  IF v.reflink THEN BitOr(f, VIR_STORAGE_VOL_CREATE_REFLINK) ELSE f

\* A message of is_size_conflict(): its text and the two amounts, in MiB.
Msg(text, requested, available) ==
    [text |-> text, requested |-> requested \div MiB,
     available |-> available \div MiB]
NoMsg == [text |-> "", requested |-> 0, available |-> 0]

SizeResult(fatal, msg, queried) ==
    [called |-> TRUE, fatal |-> fatal, msg |-> msg, queried |-> queried]
NoSizeResult ==
    [called |-> FALSE, fatal |-> FALSE, msg |-> NoMsg, queried |-> FALSE]

is_size_conflict_on_capacity(v, available) ==
    IF ~v.has_pool THEN SizeResult(FALSE, NoMsg, FALSE)
    ELSE IF v.capacity > available THEN
        SizeResult(TRUE, Msg("not enough free space", v.capacity, available),
                   TRUE)
    ELSE SizeResult(FALSE, NoMsg, TRUE)

\* is_size_conflict(): queried records whether pool.info() was called.
is_size_conflict(v, available) ==
    IF ~v.has_pool THEN SizeResult(FALSE, NoMsg, FALSE)
    ELSE IF v.allocation > available THEN
        SizeResult(TRUE,
                   Msg("not enough free space", v.allocation, available),
                   TRUE)
    ELSE IF v.capacity > available THEN
        SizeResult(FALSE,
                   Msg("capacity will exceed available", v.capacity,
                       available),
                   TRUE)
    ELSE SizeResult(FALSE, NoMsg, TRUE)

\* A progress thread: where it is, whether it was given a meter, its local
\* vol, and what it has done so far; after_set counts its meter.update
\* calls made with the event set, since its last wait that found the event
\* clear.
Worker(pc, meter) ==
    [pc |-> pc, meter |-> meter, vol |-> FALSE, info_ok |-> FALSE,
     updated |-> FALSE, late |-> FALSE, after_set |-> 0]
NoWorker == Worker("unstarted", FALSE)

NoCall == [kind |-> "", flags |-> 0, ok |-> FALSE]

VolHandle == "virStorageVol"

\* The volume objects a specification starts from.
VolumeObjects(formats, flagvalues, sizes) ==
    [format : formats, backing_store : flagvalues, backing_format : {""},
     capacity : sizes, allocation : sizes, reflink : flagvalues,
     input_vol : BOOLEAN, has_pool : BOOLEAN]

\* ---------------------------------------------------- StorageVolume actions

VolAtRest ==
    /\ conflict = NoSizeResult
    /\ mpc = "idle"
    /\ ninstalls = 0
    /\ install_finished = FALSE
    /\ workers = [k \in 1..MaxInstalls |-> NoWorker]
    /\ mlog = <<>>
    /\ create_call = NoCall
    /\ meter_ended = {}
    /\ vret = ""
    /\ vraised = NoExc

\* The volume object and connection of a specification about pools.
VolVarsAtRest ==
    /\ vol = [format |-> "raw", backing_store |-> FALSE,
              backing_format |-> "", capacity |-> 0, allocation |-> 0,
              reflink |-> FALSE, input_vol |-> FALSE, has_pool |-> FALSE]
    /\ is_really_test = FALSE
    /\ prealloc_support = FALSE
    /\ avail = 0

\* Every volume object and connection: the inputs of one install().
VolInit ==
    /\ vol \in VolumeObjects(VolFormats, BOOLEAN, Sizes)
    /\ is_really_test \in BOOLEAN
    /\ prealloc_support \in BOOLEAN
    /\ avail \in Sizes
    /\ VolAtRest

\* One volume object, to be installed repeatedly.
ThreadsInit ==
    /\ vol \in VolumeObjects({"raw"}, {FALSE}, {0})
    /\ vol.has_pool
    /\ is_really_test = FALSE
    /\ prealloc_support = FALSE
    /\ avail = 0
    /\ VolAtRest

PoolAtRest ==
    /\ pool = [type |-> TYPE_DIR, name |-> <<"p">>, source_path |-> NoPath,
               source_name |-> NoPath, format |-> "", target_path |-> NoPath,
               hosts |-> 0]
    /\ session = FALSE
    /\ ppc = "idle"
    /\ args = [create |-> FALSE, build |-> FALSE, autostart |-> FALSE]
    /\ errmsg = NoErr
    /\ calls = <<>>
    /\ cache = <<>>
    /\ raised = NoExc
    /\ ret = ""
    /\ validated = FALSE
    /\ verr = NoExc
    /\ entry = pool
    /\ dtp = Returned(NoPath)

\* StorageVolume.is_size_conflict()
IsSizeConflict ==
    /\ mpc = "idle"
    /\ ninstalls = 0
    /\ ~conflict.called
    /\ conflict' = is_size_conflict(vol, avail)
    /\ UNCHANGED <<poolvars, extvars, vol, is_really_test, prealloc_support, avail,
                   mpc, ninstalls, install_finished, workers, mlog,
                   create_call, meter_ended, vret, vraised>>

\* install() up to meter.start: the backing format is detected if it is
\* missing, the thread is created with the caller's meter, the event is
\* cleared and the thread started.
InstallStart ==
    /\ mpc = "idle"
    /\ vol.has_pool
    /\ ninstalls < MaxInstalls
    /\ \E detected \in {"", "qcow2"} :
        vol' = IF vol.backing_store /\ vol.backing_format = ""
               THEN [vol EXCEPT !.backing_format = detected]
               ELSE vol
    /\ ninstalls' = ninstalls + 1
    /\ install_finished' = FALSE
    /\ \E meter \in BOOLEAN :
        workers' = [workers EXCEPT ![ninstalls + 1] = Worker("start", meter)]
    /\ mlog' = <<"clear", "t.start", "meter.start">>
    /\ create_call' = NoCall
    /\ vret' = ""
    /\ vraised' = NoExc
    /\ mpc' = "create"
    /\ UNCHANGED <<poolvars, extvars, is_really_test, prealloc_support, avail,
                   conflict, meter_ended>>

\* install(): pool.createXMLFrom or pool.createXML; a failure is wrapped in
\* a RuntimeError and leaves the event unset and the thread unjoined.
CreateVolume ==
    /\ mpc = "create"
    /\ \E ok \in BOOLEAN :
        /\ create_call' =
            IF vol.input_vol
            THEN [kind |-> "createXMLFrom", ok |-> ok,
                  flags |-> cloneflags(vol, is_really_test, prealloc_support)]
            ELSE [kind |-> "createXML", ok |-> ok,
                  flags |-> createflags(vol, is_really_test, prealloc_support)]
        /\ IF ok
           THEN mpc' = "set" /\ vraised' = vraised
           ELSE /\ mpc' = "raised"
                /\ vraised' =
                    Exc("RuntimeError", "Couldn't create storage volume")
    /\ mlog' = Append(mlog, "create")
    /\ UNCHANGED <<poolvars, extvars, vol, is_really_test, prealloc_support, avail,
                   conflict, ninstalls, install_finished, workers,
                   meter_ended, vret>>

\* install(): self._install_finished.set()
SetFinished ==
    /\ mpc = "set"
    /\ install_finished' = TRUE
    /\ mlog' = Append(mlog, "set")
    /\ mpc' = "join"
    /\ UNCHANGED <<poolvars, extvars, vol, is_really_test, prealloc_support, avail,
                   conflict, ninstalls, workers, create_call, meter_ended,
                   vret, vraised>>

Join_without_waiting ==
    /\ mpc = "join"
    /\ mlog' = Append(mlog, "join")
    /\ mpc' = "end"
    /\ UNCHANGED <<poolvars, extvars, vol, is_really_test, prealloc_support, avail,
                   conflict, ninstalls, install_finished, workers,
                   create_call, meter_ended, vret, vraised>>

\* install(): t.join() returns once the thread of this call has ended.
Join ==
    /\ mpc = "join"
    /\ workers[ninstalls].pc = "done"
    /\ mlog' = Append(mlog, "join")
    /\ mpc' = "end"
    /\ UNCHANGED <<poolvars, extvars, vol, is_really_test, prealloc_support, avail,
                   conflict, ninstalls, install_finished, workers,
                   create_call, meter_ended, vret, vraised>>

\* install(): meter.end(self.capacity); return vol
MeterEndReturn ==
    /\ mpc = "end"
    /\ meter_ended' = meter_ended \cup {ninstalls}
    /\ mlog' = Append(mlog, "meter.end")
    /\ vret' = VolHandle
    /\ mpc' = "returned"
    /\ UNCHANGED <<poolvars, extvars, vol, is_really_test, prealloc_support, avail,
                   conflict, ninstalls, install_finished, workers,
                   create_call, vraised>>

\* The caller, back in control after install() returned or raised, is
\* about to call install() on the same object again.
InstallAgain ==
    /\ mpc \in {"returned", "raised"}
    /\ ninstalls < MaxInstalls
    /\ mpc' = "idle"
    /\ UNCHANGED <<poolvars, extvars, vol, is_really_test, prealloc_support, avail,
                   conflict, ninstalls, install_finished, workers, mlog,
                   create_call, meter_ended, vret, vraised>>

\* What a step of progress thread k leaves unchanged.
WorkerFrame ==
    UNCHANGED <<poolvars, extvars, vol, is_really_test, prealloc_support, avail,
                conflict, mpc, ninstalls, install_finished, mlog,
                create_call, meter_ended, vret, vraised>>

\* _progress_thread(): "if not meter: return"
WorkerBegin(k) ==
    /\ workers[k].pc = "start"
    /\ workers' = [workers EXCEPT ![k].pc =
                    IF workers[k].meter THEN "lookup" ELSE "done"]
    /\ WorkerFrame

\* _progress_thread(), first loop: look the volume up unless that was done
\* already, then vol.info(); break if both succeed.
WorkerLookup(k) ==
    /\ workers[k].pc = "lookup"
    /\ \E found \in BOOLEAN, info \in BOOLEAN :
        LET has == workers[k].vol \/ found
        IN  workers' = [workers EXCEPT
                ![k].vol = has,
                ![k].info_ok = @ \/ (has /\ info),
                ![k].pc = IF has /\ info THEN "info" ELSE "wait_lookup"]
    /\ WorkerFrame

WorkerWaitLookup_reports_anyway(k) ==
    /\ workers[k].pc = "wait_lookup"
    /\ workers' = [workers EXCEPT ![k].pc =
                    IF ~install_finished THEN "lookup" ELSE "info"]
    /\ WorkerFrame

\* _progress_thread(), first loop: "if self._install_finished.wait(.2):
\* break", then "if vol is None: return".
WorkerWaitLookup(k) ==
    /\ workers[k].pc = "wait_lookup"
    /\ workers' = [workers EXCEPT ![k].pc =
                    IF ~install_finished THEN "lookup"
                    ELSE IF workers[k].vol THEN "info" ELSE "done"]
    /\ WorkerFrame

\* _progress_thread(), second loop: vol.info(); an exception ends the
\* thread.
WorkerInfo(k) ==
    /\ workers[k].pc = "info"
    /\ \E info \in BOOLEAN :
        workers' = [workers EXCEPT
            ![k].info_ok = @ \/ info,
            ![k].pc = IF info THEN "update" ELSE "done"]
    /\ WorkerFrame

\* _progress_thread(), second loop: meter.update(alloc)
WorkerUpdate(k) ==
    /\ workers[k].pc = "update"
    /\ workers' = [workers EXCEPT
            ![k].updated = TRUE,
            ![k].late = @ \/ (k \in meter_ended),
            ![k].after_set = IF install_finished THEN @ + 1 ELSE @,
            ![k].pc = "wait_poll"]
    /\ WorkerFrame

WorkerWaitPoll_ignores_event(k) ==
    /\ workers[k].pc = "wait_poll"
    /\ workers' = [workers EXCEPT ![k].pc = "info"]
    /\ WorkerFrame

\* _progress_thread(), second loop: "if self._install_finished.wait(1):
\* break"
WorkerWaitPoll(k) ==
    /\ workers[k].pc = "wait_poll"
    /\ workers' = [workers EXCEPT
            ![k].after_set = IF install_finished THEN @ ELSE 0,
            ![k].pc = IF install_finished THEN "done" ELSE "info"]
    /\ WorkerFrame

\* One install() call with its progress thread.
VolNext ==
    \/ IsSizeConflict
    \/ InstallStart
    \/ CreateVolume
    \/ SetFinished
    \/ Join
    \/ MeterEndReturn
    \/ \E k \in 1..MaxInstalls : WorkerBegin(k)
    \/ \E k \in 1..MaxInstalls : WorkerLookup(k)
    \/ \E k \in 1..MaxInstalls : WorkerWaitLookup(k)
    \/ \E k \in 1..MaxInstalls : WorkerInfo(k)
    \/ \E k \in 1..MaxInstalls : WorkerUpdate(k)
    \/ \E k \in 1..MaxInstalls : WorkerWaitPoll(k)

\* install() called again and again on one object.
ThreadsNext ==
    \/ InstallStart
    \/ CreateVolume
    \/ SetFinished
    \/ Join
    \/ MeterEndReturn
    \/ InstallAgain
    \/ \E k \in 1..MaxInstalls : WorkerBegin(k)
    \/ \E k \in 1..MaxInstalls : WorkerLookup(k)
    \/ \E k \in 1..MaxInstalls : WorkerWaitLookup(k)
    \/ \E k \in 1..MaxInstalls : WorkerInfo(k)
    \/ \E k \in 1..MaxInstalls : WorkerUpdate(k)
    \/ \E k \in 1..MaxInstalls : WorkerWaitPoll(k)

\* ------------------------------------------- StorageVolume type, validate()

\* StorageVolume.TYPE_*: the defaults given to getattr() are libvirt's
\* values.
VOL_TYPE_FILE == 0
VOL_TYPE_BLOCK == 1
VOL_TYPE_DIR == 2
VOL_TYPE_NETWORK == 3
VOL_TYPE_NETDIR == 4

\* The values of a volume's type attribute; "": unset.
VolTypeNames == {"", "file", "block", "dir", "network", "netdir"}

\* StoragePool.get_disk_type()
get_disk_type(ptype) ==
    IF ptype \in {TYPE_DISK, TYPE_LOGICAL, TYPE_SCSI, TYPE_MPATH, TYPE_ZFS}
    THEN VOL_TYPE_BLOCK
    ELSE IF ptype \in {TYPE_GLUSTER, TYPE_RBD, TYPE_ISCSI, TYPE_SHEEPDOG}
    THEN VOL_TYPE_NETWORK
    ELSE VOL_TYPE_FILE

\* StorageVolume._get_vol_type(), the getter of file_type, for a volume
\* whose pool has been assigned.
_get_vol_type(vt, ptype) ==
    IF vt = "file" THEN VOL_TYPE_FILE
    ELSE IF vt = "block" THEN VOL_TYPE_BLOCK
    ELSE IF vt = "dir" THEN VOL_TYPE_DIR
    ELSE IF vt = "network" THEN VOL_TYPE_NETWORK
    ELSE get_disk_type(ptype)

NoFileType == [called |-> FALSE, value |-> 0]

NoValidate == [called |-> FALSE, raised |-> NoExc, warnings |-> <<>>]

vol_validate_keeps_allocation(v, vt, ptype, lazy, available, name_ok, probe) ==
    LET v1 == IF v.format = "" /\ _get_vol_type(vt, ptype) = VOL_TYPE_FILE
              THEN [v EXCEPT !.format = "raw"] ELSE v
        l1 == IF lazy = "unset" /\ v1.format = "qcow2" THEN probe ELSE lazy
        r == is_size_conflict(v1, available)
    IN  IF ~name_ok
        THEN [vol |-> v, lazy |-> lazy, warnings |-> <<>>,
              raised |-> Exc("ValueError", "Name already in use")]
        ELSE [vol |-> v1, lazy |-> l1,
              warnings |-> IF ~r.fatal /\ r.msg.text # ""
                           THEN <<r.msg.text>> ELSE <<>>,
              raised |-> IF r.fatal THEN Exc("ValueError", r.msg.text)
                         ELSE NoExc]

\* StorageVolume.validate(): the volume and lazy_refcounts it leaves
\* behind, the warnings it logged and the exception it raised.  The
\* assignments made before a raise stay in the object.
vol_validate(v, vt, ptype, lazy, available, name_ok, probe) ==
    LET v1 == IF v.format = "" /\ _get_vol_type(vt, ptype) = VOL_TYPE_FILE
              THEN [v EXCEPT !.format = "raw"] ELSE v
        l1 == IF lazy = "unset" /\ v1.format = "qcow2" THEN probe ELSE lazy
        sparse == ptype = TYPE_LOGICAL /\ v1.allocation # v1.capacity
        v2 == IF sparse THEN [v1 EXCEPT !.allocation = v1.capacity] ELSE v1
        w1 == IF sparse THEN <<"Sparse logical volumes are not supported">>
              ELSE <<>>
        r == is_size_conflict(v2, available)
    IN  IF ~name_ok
        THEN [vol |-> v, lazy |-> lazy, warnings |-> <<>>,
              raised |-> Exc("ValueError", "Name already in use")]
        ELSE [vol |-> v2, lazy |-> l1,
              warnings |-> IF ~r.fatal /\ r.msg.text # ""
                           THEN Append(w1, r.msg.text) ELSE w1,
              raised |-> IF r.fatal THEN Exc("ValueError", r.msg.text)
                         ELSE NoExc]

\* A pool of the connection, as fetch_all_pools() gives it; NoPoolXml: None.
PoolXml(name, path) == [name |-> name, target_path |-> path]
NoPoolXml == PoolXml(NoPath, NoPath)

\* The parts of the state that only the volume-object and default-pool
\* specifications use.
ObjectAtRest ==
    /\ vtype = ""
    /\ pool_type = TYPE_DIR
    /\ lazy_refcounts = "unset"
    /\ vval = NoValidate
    /\ ftype = NoFileType
    /\ ventry = vol

\* Every volume object with its pool assigned, before validate().
ObjectInit ==
    /\ vol \in VolumeObjects({""} \cup VolFormats, {FALSE}, Sizes)
    /\ vol.has_pool
    /\ ~vol.input_vol
    /\ is_really_test = FALSE
    /\ prealloc_support = FALSE
    /\ avail \in Sizes
    /\ vtype \in VolTypeNames
    /\ pool_type \in PoolTypes
    /\ lazy_refcounts \in {"unset", "no"}
    /\ vval = NoValidate
    /\ ftype = NoFileType
    /\ ventry = vol
    /\ VolAtRest

\* A read of StorageVolume.file_type
FileType ==
    /\ ~ftype.called
    /\ vol.has_pool
    /\ ftype' = [called |-> TRUE, value |-> _get_vol_type(vtype, pool_type)]
    /\ UNCHANGED <<poolvars, volvars, vtype, pool_type, lazy_refcounts, vval,
                   ventry, conn_pools, dpc, dbuild, dret>>

\* StorageVolume.validate(); the outcome of validate_name and the
\* connection's lazy_refcounts probe are the connection's.
VolValidate ==
    /\ ~vval.called
    /\ vol.has_pool
    /\ \E name_ok \in BOOLEAN, probe \in {"yes", "no"} :
        LET r == vol_validate(vol, vtype, pool_type, lazy_refcounts, avail,
                              name_ok, probe)
        IN  /\ vol' = r.vol
            /\ lazy_refcounts' = r.lazy
            /\ vval' = [called |-> TRUE, raised |-> r.raised,
                        warnings |-> r.warnings]
    /\ ventry' = vol
    /\ UNCHANGED <<poolvars, is_really_test, prealloc_support, avail,
                   conflict, mpc, ninstalls, install_finished, workers, mlog,
                   create_call, meter_ended, vret, vraised, vtype, pool_type,
                   ftype, conn_pools, dpc, dbuild, dret>>

ObjectNext ==
    \/ FileType
    \/ VolValidate

\* ------------------------------------------------------ build_default_pool

DefaultName == <<"default">>
ConnPoolNames == {DefaultName, <<"images">>, <<"other">>}
ConnPoolPaths ==
    {NoPath, <<"/var/lib/libvirt/images">>, <<"/var/lib/libvirt/images", "/">>,
     <<"~/.local/share/libvirt/images">>, <<"/srv/images">>}

\* What build_default_pool() gave: the exception it raised, or the pool it
\* returned (NoPoolXml: None) and whether that pool is one it built.
DefaultPoolResult(exc, value, built) ==
    [raised |-> exc, value |-> value, built |-> built]
NoDefaultPool == DefaultPoolResult(NoExc, NoPoolXml, FALSE)

\* os.path.abspath() of an absolute path: trailing separators are dropped.
RECURSIVE abspath(_)
abspath(p) ==
    IF Len(p) > 1 /\ p[Len(p)] = "/" THEN abspath(SubSeq(p, 1, Len(p) - 1))
    ELSE p

\* The first of the elements of pools at the positions hits, in
\* enumeration order; NoPoolXml if there is none.
FirstPool(pools, hits) ==
    IF hits = {} THEN NoPoolXml
    ELSE pools[CHOOSE i \in hits : \A j \in hits : i <= j]

_lookup_poolxml_by_path(pools, path) ==
    FirstPool(pools, {i \in 1..Len(pools) :
                         /\ pools[i].target_path # NoPath
                         /\ abspath(pools[i].target_path) = path})

\* The pools named "default", by position.
NamedPools(pools) == {i \in 1..Len(pools) : pools[i].name = DefaultName}

_lookup_default_pool_by_path_first(pools, sess) ==
    LET bypath ==
            _lookup_poolxml_by_path(pools, _preferred_default_pool_path(sess))
    IN  IF bypath # NoPoolXml THEN bypath
        ELSE FirstPool(pools, NamedPools(pools))

\* _lookup_default_pool(): the for/else takes the pool named "default" if
\* the enumeration has one, else looks the default path up.
_lookup_default_pool(pools, sess) ==
    LET named == FirstPool(pools, NamedPools(pools))
    IN  IF named # NoPoolXml THEN named
        ELSE _lookup_poolxml_by_path(pools, _preferred_default_pool_path(sess))

\* The StoragePool build_default_pool() sets up before it installs it.
defpool(sess) ==
    [type |-> TYPE_DIR, name |-> DefaultName, source_path |-> NoPath,
     source_name |-> NoPath, format |-> "",
     target_path |-> _preferred_default_pool_path(sess), hosts |-> 0]

\* The sequences of at most n pools with pairwise different names.
ConnPools(n) ==
    LET all == [name : ConnPoolNames, target_path : ConnPoolPaths]
    IN  UNION {{ps \in [1..k -> all] :
                   \A i, j \in 1..k : i # j => ps[i].name # ps[j].name} :
               k \in 0..n}

DefaultPoolInit ==
    /\ conn_pools \in ConnPools(MaxPools)
    /\ session \in BOOLEAN
    /\ dbuild \in BOOLEAN
    /\ dpc = "idle"
    /\ dret = NoDefaultPool
    /\ pool = [type |-> TYPE_DIR, name |-> <<"p">>, source_path |-> NoPath,
               source_name |-> NoPath, format |-> "", target_path |-> NoPath,
               hosts |-> 0]
    /\ ppc = "idle"
    /\ args = [create |-> FALSE, build |-> FALSE, autostart |-> FALSE]
    /\ errmsg = NoErr
    /\ calls = <<>>
    /\ cache = <<>>
    /\ raised = NoExc
    /\ ret = ""
    /\ validated = FALSE
    /\ verr = NoExc
    /\ entry = pool
    /\ dtp = Returned(NoPath)

\* build_default_pool(conn, build): the lookup, the early returns, and the
\* entry into defpool.install(build=True, create=True, autostart=True).
BuildDefaultPool ==
    /\ dpc = "idle"
    /\ LET poolxml == _lookup_default_pool(conn_pools, session)
           e == install_precheck(defpool(session), TRUE)
       IN  IF poolxml # NoPoolXml \/ ~dbuild
           THEN /\ dret' = DefaultPoolResult(NoExc, poolxml, FALSE)
                /\ dpc' = "returned"
                /\ UNCHANGED <<pool, args, ppc, raised>>
           ELSE /\ pool' = defpool(session)
                /\ args' = [create |-> TRUE, build |-> TRUE,
                            autostart |-> TRUE]
                /\ dpc' = "installing"
                /\ dret' = dret
                /\ IF e # NoExc
                   THEN raised' = e /\ ppc' = "raised"
                   ELSE raised' = raised /\ ppc' = "define"
    /\ UNCHANGED <<volvars, vtype, pool_type, lazy_refcounts, vval, ventry,
                   ftype, conn_pools, dbuild, session, errmsg, calls, cache,
                   ret, validated, verr, entry, dtp>>

\* build_default_pool(): install() is over; "return defpool", or the except
\* clause's RuntimeError.
DefaultPoolEnd ==
    /\ dpc = "installing"
    /\ ppc \in {"returned", "raised"}
    /\ IF ppc = "returned"
       THEN /\ dret' = DefaultPoolResult(
                           NoExc, PoolXml(pool.name, pool.target_path), TRUE)
            /\ dpc' = "returned"
       ELSE /\ dret' = DefaultPoolResult(
                           Exc("RuntimeError",
                               "Couldn't create default storage pool"),
                           NoPoolXml, FALSE)
            /\ dpc' = "raised"
    /\ UNCHANGED <<poolvars, volvars, vtype, pool_type, lazy_refcounts, vval,
                   ventry, ftype, conn_pools, dbuild>>

DefaultPoolNext ==
    \/ BuildDefaultPool
    \/ Define
    \/ Build
    \/ Create
    \/ SetAutostart
    \/ Cleanup
    \/ Finish
    \/ DefaultPoolEnd

\* ------------------------------------------------------------ specifications

DefaultPoolAtRest ==
    /\ conn_pools = <<>>
    /\ dpc = "idle"
    /\ dbuild = FALSE
    /\ dret = NoDefaultPool

ExtAtRest == ObjectAtRest /\ DefaultPoolAtRest

\* A StoragePool: validate(), default_target_path(), install().
InitPool == PoolInit /\ VolAtRest /\ VolVarsAtRest /\ ExtAtRest
SpecPool == InitPool /\ [][PoolNext]_vars

\* A StorageVolume: is_size_conflict(), and one install() with its thread.
InitVol == VolInit /\ PoolAtRest /\ ExtAtRest
SpecVol == InitVol /\ [][VolNext]_vars

\* A StorageVolume object: file_type and validate().
InitObject == ObjectInit /\ PoolAtRest /\ DefaultPoolAtRest
SpecObject == InitObject /\ [][ObjectNext]_vars

\* StoragePool.build_default_pool() on a connection with any pools.
InitDefaultPool == DefaultPoolInit /\ VolAtRest /\ VolVarsAtRest /\ ObjectAtRest
SpecDefaultPool == InitDefaultPool /\ [][DefaultPoolNext]_vars

\* A StorageVolume installed up to MaxInstalls times.
InitThreads == ThreadsInit /\ PoolAtRest /\ ExtAtRest
SpecThreads == InitThreads /\ [][ThreadsNext]_vars

\* The same under fair scheduling: a thread that can take a step takes it.
\* Whether install() is called at all, or again, is the caller's choice.
ThreadsFairness ==
    /\ WF_vars(CreateVolume)
    /\ WF_vars(SetFinished)
    /\ WF_vars(Join)
    /\ WF_vars(MeterEndReturn)
    /\ \A k \in 1..MaxInstalls :
        /\ WF_vars(WorkerBegin(k))
        /\ WF_vars(WorkerLookup(k))
        /\ WF_vars(WorkerWaitLookup(k))
        /\ WF_vars(WorkerInfo(k))
        /\ WF_vars(WorkerUpdate(k))
        /\ WF_vars(WorkerWaitPoll(k))

SpecThreadsFair == InitThreads /\ [][ThreadsNext]_vars /\ ThreadsFairness

\* ------------------------------------------------- StoragePool properties

\* The operations install() has called, in order.
Ops == [i \in 1..Len(calls) |-> calls[i].op]

OpCount(op) == Cardinality({i \in 1..Len(calls) : calls[i].op = op})

\* The position of an operation in install()'s text.
Rank(op) ==
    CASE op = "define" -> 1
      [] op = "build" -> 2
      [] op = "create" -> 3
      [] op = "setAutostart" -> 4
      [] op = "undefine" -> 5

StageError(op) ==
    CASE op = "build" -> Exc("RuntimeError", "Could not build storage pool")
      [] op = "create" -> Exc("RuntimeError", "Could not start storage pool")
      [] op = "setAutostart" ->
            Exc("RuntimeError", "Could not set pool autostart flag")

InstallEnded == ppc \in {"returned", "raised"}

\* C1: once the pool is defined, a failed build, start or autostart stage
\* makes install() skip every later stage, call undefine() exactly once on
\* the pool and raise a RuntimeError naming the failed stage; a failing
\* undefine() does not change the error raised, and the pool is never
\* passed to the connection's pool cache.
C1_StageFailureUndefinesAndRaises ==
    \A i \in 1..Len(calls) :
        (calls[i].op \in {"build", "create", "setAutostart"} /\ ~calls[i].ok)
        => /\ \A j \in (i + 1)..Len(calls) : calls[j].op = "undefine"
           /\ OpCount("undefine") <= 1
           /\ cache = <<>>
           /\ ret = ""
           /\ ppc # "returned"
           /\ InstallEnded =>
                /\ OpCount("undefine") = 1
                /\ calls[Len(calls)].op = "undefine"
                /\ raised = StageError(calls[i].op)

\* C1 witness: start failed with autostart still requested, and the
\* undefine() that followed failed too.
C1_Witness ==
    /\ ppc = "raised"
    /\ args.create /\ args.autostart
    /\ \E i \in 1..Len(calls) : calls[i] = Call("create", FALSE)
    /\ calls[Len(calls)] = Call("undefine", FALSE)

\* The calls of an install() whose stages all succeed.
ExpectedOps ==
    <<"define">>
    \o (IF args.build THEN <<"build">> ELSE <<>>)
    \o (IF args.create THEN <<"create">> ELSE <<>>)
    \o (IF args.autostart THEN <<"setAutostart">> ELSE <<>>)

\* C2: install() calls define, build, create, setAutostart in that order,
\* only the stages whose flag is set and each at most once; when every
\* requested stage succeeds the handle is cached exactly once, after the
\* last stage, and returned, and undefine() is never called.
C2_StageOrderAndSuccess ==
    /\ \A i, j \in 1..Len(calls) : i < j => Rank(calls[i].op) < Rank(calls[j].op)
    /\ OpCount("build") > 0 => args.build
    /\ OpCount("create") > 0 => args.create
    /\ OpCount("setAutostart") > 0 => args.autostart
    /\ cache # <<>> => ppc = "returned"
    /\ (InstallEnded /\ calls # <<>> /\ \A i \in 1..Len(calls) : calls[i].ok)
       => ppc = "returned"
    /\ ppc = "returned" =>
        /\ Ops = ExpectedOps
        /\ \A i \in 1..Len(calls) : calls[i].ok
        /\ cache = <<PoolHandle>>
        /\ ret = PoolHandle
        /\ OpCount("undefine") = 0

\* C2 witness: an install() with all three flags that returned.
C2_Witness ==
    /\ ppc = "returned"
    /\ args.build /\ args.create /\ args.autostart
    /\ Len(calls) = 4

\* install() has been entered (the pool is not changed by install()).
InstallEntered == ppc \notin {"idle", "dtp"}

\* C3: install() with build requested raises before any mutating call when
\* the pool is logical without a source path, or a disk pool whose format
\* is empty or "auto".
C3_BuildPreconditionsFatal ==
    (/\ InstallEntered
     /\ args.build
     /\ \/ pool.type = TYPE_LOGICAL /\ pool.source_path = NoPath
        \/ pool.type = TYPE_DISK /\ pool.format \in {"", "auto"})
    => /\ ppc = "raised"
       /\ raised.type = "ValueError"
       /\ calls = <<>>

\* The documented default target path of a pool type that has a rule.
DocumentedTargetPath(p, sess) ==
    LET root == IF sess THEN <<"~/.local/share/libvirt/images">>
                ELSE <<"/var/lib/libvirt/images">>
    IN  CASE p.type \in {"dir", "fs", "netfs"} ->
                IF p.name[1] = "/" THEN p.name ELSE root \o <<"/">> \o p.name
          [] p.type = "logical" ->
                <<"/dev/">> \o
                (IF p.source_name # <<>> THEN p.source_name ELSE p.name)
          [] p.type = "disk" -> <<"/dev">>
          [] p.type \in {"iscsi", "scsi"} -> <<"/dev/disk/by-path">>
          [] p.type = "mpath" -> <<"/dev/mapper">>

TypesWithTargetRule ==
    {"dir", "fs", "netfs", "logical", "disk", "iscsi", "scsi", "mpath"}

\* C8 as stated: default_target_path() returns the documented path for the
\* types that have a rule and raises for every type that has none.
C8_DefaultTargetPathOrRaise ==
    ppc = "dtp" =>
        IF pool.type \in TypesWithTargetRule
        THEN dtp = Returned(DocumentedTargetPath(pool, session))
        ELSE dtp.raised # NoExc

\* C8 amended: default_target_path() returns the documented path for the
\* types that have a rule and returns None, without raising, for every
\* type that has none (gluster, rbd, sheepdog, zfs).
C8_DefaultTargetPathOrNone ==
    ppc = "dtp" =>
        IF pool.type \in TypesWithTargetRule
        THEN dtp = Returned(DocumentedTargetPath(pool, session))
        ELSE dtp = Returned(NoPath)

\* C8 witness: default_target_path() has returned on a gluster pool.
C8_Witness ==
    /\ ppc = "dtp"
    /\ pool.type = "gluster"
    /\ dtp.raised = NoExc

ValidateReturned == validated /\ verr = NoExc

\* C9: when validate() returns, a disk pool never has format "auto" (it
\* leaves with no format if it entered with "auto" or none, and keeps any
\* other format); an fs or netfs pool that entered with no format leaves
\* with "auto"; a pool whose type has no format keeps its format.
C9_ValidateFormat ==
    ValidateReturned =>
        /\ pool.type = "disk" =>
            /\ pool.format # "auto"
            /\ entry.format \in {"", "auto"} => pool.format = ""
            /\ entry.format \notin {"", "auto"} => pool.format = entry.format
        /\ (pool.type \in {"fs", "netfs"} /\ entry.format = "")
            => pool.format = "auto"
        /\ pool.type \notin {"fs", "netfs", "disk"}
            => pool.format = entry.format

\* C9 witness: validate() returned on a disk pool that entered with "auto".
C9_Witness ==
    /\ ValidateReturned
    /\ pool.type = "disk"
    /\ entry.format = "auto"
    /\ pool.format = ""

\* ------------------------------------------------- StorageVolume properties

\* What install() does, in order, when the creation call succeeds.
SuccessPath ==
    <<"clear", "t.start", "meter.start", "create", "set", "join",
      "meter.end">>

\* C4: when install() returns the volume, the progress thread it started
\* has ended: the creation call, the setting of the event, the join and
\* meter.end happen in that order, and no thread forwards an allocation to
\* its meter after the install() that started it has called meter.end.
C4_ReturnsAfterJoin ==
    /\ mpc = "returned" =>
        /\ workers[ninstalls].pc = "done"
        /\ mlog = SuccessPath
        /\ vret = VolHandle
    /\ \A k \in 1..MaxInstalls :
        /\ k \in meter_ended => workers[k].pc = "done"
        /\ ~workers[k].late

\* C4 witness: install() returned and its thread had forwarded allocations.
C4_Witness ==
    /\ mpc = "returned"
    /\ workers[ninstalls].meter
    /\ workers[ninstalls].updated

CreationCallMade == create_call.kind # ""

FourPreallocConditions ==
    /\ vol.format = "qcow2"
    /\ ~vol.backing_store
    /\ ~is_really_test
    /\ prealloc_support

PassedPrealloc == (create_call.flags % 2) = 1
PassedReflink == ((create_call.flags \div 2) % 2) = 1

C7_ReflinkOnEveryCreation ==
    CreationCallMade => (PassedReflink <=> vol.reflink)

\* C7 amended: the clone call is passed the reflink flag exactly when
\* reflink is set on the volume; the plain create call is never passed it.
C7_ReflinkOnCloneOnly ==
    /\ create_call.kind = "createXMLFrom" => (PassedReflink <=> vol.reflink)
    /\ create_call.kind = "createXML" => ~PassedReflink

\* C7 witness: a clone call of a volume with reflink set.
C7_Witness ==
    /\ create_call.kind = "createXMLFrom"
    /\ vol.reflink
    /\ PassedReflink

\* C10: is_size_conflict() returns (True, message) exactly when allocation
\* exceeds the available space, (False, message) exactly when allocation
\* fits and capacity does not, (False, "") otherwise; without a pool it
\* returns (False, "") and does not query the pool.
C10_SizeConflict ==
    conflict.called =>
        IF ~vol.has_pool
        THEN ~conflict.fatal /\ conflict.msg.text = "" /\ ~conflict.queried
        ELSE /\ (conflict.fatal /\ conflict.msg.text # "")
                    <=> vol.allocation > avail
             /\ (~conflict.fatal /\ conflict.msg.text # "")
                    <=> (vol.allocation <= avail /\ vol.capacity > avail)
             /\ (~conflict.fatal /\ conflict.msg.text = "")
                    <=> (vol.allocation <= avail /\ vol.capacity <= avail)

\* C10 witness: only the capacity exceeds the available space.
C10_Witness ==
    /\ conflict.called
    /\ vol.has_pool
    /\ ~conflict.fatal
    /\ conflict.msg.text # ""

\* ---------------------------------------- StorageVolume object properties

\* validate() ran on a volume whose name was free, in a logical pool, that
\* asked for an allocation different from its capacity and no larger than
\* the pool's available space.
SparseLogicalValidated ==
    /\ vval.called
    /\ vval.raised # Exc("ValueError", "Name already in use")
    /\ pool_type = "logical"
    /\ ventry.allocation # ventry.capacity
    /\ ventry.allocation <= avail

\* C11 as stated: such a validate() sets allocation to capacity and
\* returns without raising, for every capacity.
C11_SparseLogicalNeverRaises ==
    SparseLogicalValidated =>
        /\ vol.allocation = ventry.capacity
        /\ vval.raised = NoExc

\* C11 amended: such a validate() sets allocation to capacity and logs the
\* warning; it returns without raising exactly when the capacity does not
\* exceed the pool's available space, and raises ValueError otherwise.
C11_SparseLogicalRaisesOnlyIfTooLarge ==
    SparseLogicalValidated =>
        /\ vol.allocation = ventry.capacity
        /\ vol.capacity = ventry.capacity
        /\ vval.warnings # <<>>
        /\ ventry.capacity <= avail => vval.raised = NoExc
        /\ ventry.capacity > avail => vval.raised.type = "ValueError"

\* C11 witness: a sparse logical volume whose capacity fits was validated
\* and its allocation raised to the capacity.
C11_Witness ==
    /\ SparseLogicalValidated
    /\ vval.raised = NoExc
    /\ vol.allocation = vol.capacity
    /\ ventry.allocation < ventry.capacity

\* The storage class that a volume type names.
ClassOfType(vt) ==
    CASE vt = "file" -> 0
      [] vt = "block" -> 1
      [] vt = "dir" -> 2
      [] vt = "network" -> 3
      [] vt = "netdir" -> 4

\* The storage class documented for a pool type.
ClassOfPool(ptype) ==
    IF ptype \in {"disk", "logical", "scsi", "mpath", "zfs"} THEN 1
    ELSE IF ptype \in {"gluster", "rbd", "iscsi", "sheepdog"} THEN 3
    ELSE 0

\* C12: with a pool assigned, file_type is the storage class of the
\* explicit type whenever type is set (file, block, dir, network, netdir),
\* whatever the pool's type; only with type unset is it the class derived
\* from the pool's type.
C12_FileTypeIsExplicitType ==
    ftype.called =>
        IF vtype # "" THEN ftype.value = ClassOfType(vtype)
        ELSE ftype.value = ClassOfPool(pool_type)

\* ------------------------------------------- build_default_pool properties

\* The connection's pools named "default", and those whose target path is
\* the default path, by position in the enumeration.
NamedDefault == {i \in DOMAIN conn_pools : conn_pools[i].name = DefaultName}

AtDefaultPath ==
    {i \in DOMAIN conn_pools :
        /\ conn_pools[i].target_path # NoPath
        /\ abspath(conn_pools[i].target_path) =
               _preferred_default_pool_path(session)}

DefaultPoolCalled == dpc \in {"returned", "raised"}

CreateOps == <<"define", "build", "create", "setAutostart">>

\* The calls made are the creation calls in order, up to the first that
\* failed, and then undefine if a call after define failed.
CreationCallsInOrder ==
    \E n \in 1..Len(CreateOps) :
        /\ \A i \in 1..n : calls[i] = Call(CreateOps[i], i < n \/ calls[i].ok)
        /\ \/ Len(calls) = n
           \/ /\ Len(calls) = n + 1
              /\ calls[n + 1].op = "undefine"
              /\ n > 1
              /\ ~calls[n].ok

\* C13: build_default_pool() returns the pool named "default" whenever one
\* exists, whatever the enumeration order and whatever other pool has the
\* default path; otherwise a pool whose target path is the default path if
\* one exists; it makes mutating calls only when neither exists and build
\* is requested, and they define, build, start and autostart a dir pool
\* named "default" at the default path; without build it returns nothing
\* and makes no mutating call; a failure while creating is raised as a
\* descriptive error.
C13_BuildDefaultPool ==
    /\ (DefaultPoolCalled /\ NamedDefault # {}) =>
           /\ dret = DefaultPoolResult(NoExc, dret.value, FALSE)
           /\ dret.value.name = DefaultName
           /\ \E i \in NamedDefault : dret.value = conn_pools[i]
    /\ (DefaultPoolCalled /\ NamedDefault = {} /\ AtDefaultPath # {}) =>
           /\ dret = DefaultPoolResult(NoExc, dret.value, FALSE)
           /\ \E i \in AtDefaultPath : dret.value = conn_pools[i]
    /\ (DefaultPoolCalled /\ NamedDefault = {} /\ AtDefaultPath = {}
            /\ ~dbuild) =>
           dret = NoDefaultPool
    /\ calls # <<>> =>
           /\ NamedDefault = {} /\ AtDefaultPath = {} /\ dbuild
           /\ pool.type = TYPE_DIR
           /\ pool.name = DefaultName
           /\ pool.target_path = _preferred_default_pool_path(session)
           /\ CreationCallsInOrder
    /\ (DefaultPoolCalled /\ NamedDefault = {} /\ AtDefaultPath = {}
            /\ dbuild) =>
           /\ calls # <<>>
           /\ IF \A i \in DOMAIN calls : calls[i].ok
              THEN /\ Ops = CreateOps
                   /\ dret = DefaultPoolResult(
                          NoExc,
                          PoolXml(DefaultName,
                                  _preferred_default_pool_path(session)),
                          TRUE)
              ELSE /\ dpc = "raised"
                   /\ dret.raised =
                          Exc("RuntimeError",
                              "Couldn't create default storage pool")

\* C13 witness: the pool named "default" was returned although a pool
\* enumerated before it has the default path.
C13_Witness ==
    /\ dpc = "returned"
    /\ \E i \in AtDefaultPath : \E j \in NamedDefault : i < j
    /\ dret.value.name = DefaultName
    /\ calls = <<>>

\* A default pool was built by the four calls, and one failed creation
\* was raised after undefine.
C13_BuiltWitness ==
    /\ dpc = "returned"
    /\ dret.built
    /\ Ops = CreateOps

C13_FailedWitness ==
    /\ dpc = "raised"
    /\ Len(calls) > 1
    /\ calls[Len(calls)].op = "undefine"

\* ------------------------------------------ progress thread, after the event

\* C14 as stated: once the completion signal has been set, the worker
\* forwards no further allocation update before it exits.
C14_NoUpdateAfterSignal ==
    \A k \in 1..MaxInstalls : workers[k].after_set = 0

\* C14 amended: once the completion signal has been set, a worker forwards
\* at most one further allocation update while the signal stays set, and
\* having forwarded it, it only has the wait left that ends it.
C14_AtMostOneUpdateAfterSignal ==
    \A k \in 1..MaxInstalls :
        /\ workers[k].after_set <= 1
        /\ (workers[k].after_set = 1 /\ install_finished) =>
               workers[k].pc \in {"wait_poll", "done"}

\* C14 witness: a worker forwarded one update with the signal set and
\* then exited.
C14_Witness ==
    \E k \in 1..MaxInstalls :
        /\ workers[k].after_set = 1
        /\ workers[k].pc = "done"
        /\ install_finished

\* The progress threads that were started and have not returned.
AliveWorkers ==
    {k \in 1..MaxInstalls : workers[k].pc \notin {"unstarted", "done"}}

\* install() call k has ended: it returned or raised.
CallEnded(k) ==
    \/ ninstalls > k
    \/ ninstalls = k /\ mpc \in {"returned", "raised"}

\* C15, its safety part: no worker of an ended install() call is alive
\* once a new install() has started, so at most one worker is alive.
C15_AtMostOneWorkerAlive ==
    /\ Cardinality(AliveWorkers) <= 1
    /\ \A k \in AliveWorkers : k = ninstalls

\* C15, its liveness part: under fair scheduling the worker of every
\* install() call that has ended eventually terminates.
C15_EndedCallsWorkerTerminates ==
    \A k \in 1..MaxInstalls : CallEnded(k) ~> (workers[k].pc = "done")

\* Under fair scheduling the worker of every install() call that set the
\* event terminates, and the call returns.
SignalledWorkerTerminates ==
    \A k \in 1..MaxInstalls :
        (ninstalls = k /\ mpc = "join") ~>
            (workers[k].pc = "done" /\ mpc = "returned")

====
